---- MODULE Spec2Model ----
(***************************************************************************)
(* The windowing pipeline of vue-virtual-scroll-grid (src/src/pipeline.ts) *)
(* as a state machine.                                                     *)
(*                                                                         *)
(* The eight input streams of pipeline() are modelled as signals that hold *)
(* a current value and notify their subscribers in subscription order      *)
(* (what a Subject does, and what a prop or a DOM measurement is): a new   *)
(* subscription receives the current value at once, when there is one.     *)
(* Every action is one emission of one input, or one timer or promise      *)
(* callback, followed to the end of the synchronous cascade it starts.     *)
(***************************************************************************)
EXTENDS Integers, Sequences, FiniteSets, Bags

\* ------------------------------------------------------------------ bounds
MaxLength == 3          \* length$ emits values of 0..MaxLength
MaxPageSize == 2        \* pageSize$ emits values of 1..MaxPageSize
MaxProvider == 2        \* pageProvider$ emits providers 1..MaxProvider
MaxTime == 1            \* pageProviderDebounceTime$ emits 0..MaxTime
MaxHeight == 1          \* heightAboveWindow$ emits 0..MaxHeight
MaxColumns == 2         \* grids of 1..MaxColumns columns
MaxItemHeight == 1      \* itemHeightWithGap of 1..MaxItemHeight
MaxCalls == 4           \* provider calls made in one run of the pipeline
MaxEpoch == 1           \* emissions of pageSize$ and pageProvider$ in one run
MaxPage == 2            \* pages 0..MaxPage are folded by accumulateAllItems alone
MaxFold == 2            \* pages folded by accumulateAllItems alone in one run
MaxOffset == 3          \* bufferedOffset of 0..MaxOffset projected alone
MaxWindow == 4          \* bufferedLength of 0..MaxWindow projected alone
MaxInnerHeight == 3     \* window.innerHeight of 0..MaxInnerHeight for getBufferMeta alone
MaxAbove == 4           \* heightAboveWindow of 0..MaxAbove for getBufferMeta alone
MaxRowGap == 1          \* rowGap of 0..MaxRowGap for getBufferMeta alone
MaxRowHeight == 2       \* itemHeightWithGap of 0..MaxRowHeight for getBufferMeta alone
MaxGridColumns == 3     \* columns of 1..MaxGridColumns for getBufferMeta alone
MaxRequests == 2        \* values of scrollTo$ that are not nil, in one run
MaxIndex == 1           \* scrollTo$ emits nil and indices 0..MaxIndex

\* ----------------------------------------------------------------- helpers
Min(a, b) == IF a < b THEN a ELSE b
Max(a, b) == IF a > b THEN a ELSE b
\* Math.floor(a / b) and Math.ceil(a / b) for b > 0
Floor(a, b) == a \div b
Ceil(a, b) == -((-a) \div b)

\* undefined: a hole of the collection, and the value of a slot over a hole
Undefined == [prov |-> 0, idx |-> -1]
\* the value a provider holds for a logical index
Item(prov, i) == [prov |-> prov, idx |-> i]

\* The absence of a value in a stream that has not emitted yet.
NoNumber == -1
\* undefined as a value of scrollTo$
Nil == -2
NoMeasurement == [rowGap |-> -1, columns |-> -1, itemHeightWithGap |-> -1,
                  itemWidthWithGap |-> -1]
NoMeta == [bufferedOffset |-> -1, bufferedLength |-> -1]
NoRange == [start |-> -1, count |-> -1]
NoPage == [pageNumber |-> -1, items |-> <<>>]

\* ------------------------------------------------------- ramda, on arrays
concat(a, b) == a \o b
\* slice(from, to, list), 0 <= from, 0 <= to
slice(from, to, list) == SubSeq(list, from + 1, Min(to, Len(list)))
\* remove(start, count, list): Array.prototype.splice(start, count)
remove(start, count, list) ==
  LET s == Min(start, Len(list))
  IN SubSeq(list, 1, s) \o SubSeq(list, s + count + 1, Len(list))
\* insertAll(idx, elts, list): an index outside the list appends
insertAll(idx, elts, list) ==
  LET i == IF idx < Len(list) /\ idx >= 0 THEN idx ELSE Len(list)
  IN SubSeq(list, 1, i) \o elts \o SubSeq(list, i + 1, Len(list))
\* new Array(n).fill(undefined)
fill(n) == [i \in 1..n |-> Undefined]

Contains(list, x) == \E i \in 1..Len(list) : list[i] = x
\* the elements of list, in order, up to the first of those equal to each other
Uniq(list) ==
  LET first(i) == \A j \in 1..(i - 1) : list[j] # list[i]
      kept == {i \in 1..Len(list) : first(i)}
      nth[k \in 1..Cardinality(kept)] ==
        CHOOSE i \in kept : Cardinality({j \in kept : j < i}) = k - 1
  IN IF Cardinality(kept) = Len(list) THEN list
     ELSE [k \in 1..Cardinality(kept) |-> list[nth[k]]]
\* difference(a, b): the elements of a that equal no element of b, once each
difference(a, b) == Uniq(SelectSeq(a, LAMBDA e : ~Contains(b, e)))
\* without(xs, list)
without(xs, list) == SelectSeq(list, LAMBDA e : ~Contains(xs, e))
\* zip(a, b): pairs up to the shorter list
zip(a, b) == [i \in 1..Min(Len(a), Len(b)) |-> <<a[i], b[i]>>]

\* ---------------------------------------------------------- pure functions
\* window.innerHeight, read once when pipeline() calls getBufferMeta()
windowInnerHeight == 0

\* getBufferMeta that does not keep the offset from going below 0
getBufferMetaNoClamp(windowInnerHeight_, heightAboveWindow_, m) ==
  LET rowsInView == IF m.itemHeightWithGap = 0 THEN 0
                    ELSE Ceil(windowInnerHeight_ + m.rowGap, m.itemHeightWithGap) + 1
      length_ == rowsInView * m.columns
      rowsBeforeView == IF m.itemHeightWithGap = 0 THEN 0
                        ELSE Floor(heightAboveWindow_ + m.rowGap, m.itemHeightWithGap)
      offset == rowsBeforeView * m.columns
  IN [bufferedOffset |-> offset - Floor(length_, 2),
      bufferedLength |-> length_ * 2]

\* getBufferMeta that buffers as many items as are in view
getBufferMetaSingleLength(windowInnerHeight_, heightAboveWindow_, m) ==
  LET rowsInView == IF m.itemHeightWithGap = 0 THEN 0
                    ELSE Ceil(windowInnerHeight_ + m.rowGap, m.itemHeightWithGap) + 1
      length_ == rowsInView * m.columns
      rowsBeforeView == IF m.itemHeightWithGap = 0 THEN 0
                        ELSE Floor(heightAboveWindow_ + m.rowGap, m.itemHeightWithGap)
      offset == rowsBeforeView * m.columns
  IN [bufferedOffset |-> Max(offset - Floor(length_, 2), 0),
      bufferedLength |-> length_]

\* getBufferMeta that moves the window down by half of what is in view
getBufferMetaShiftedDown(windowInnerHeight_, heightAboveWindow_, m) ==
  LET rowsInView == IF m.itemHeightWithGap = 0 THEN 0
                    ELSE Ceil(windowInnerHeight_ + m.rowGap, m.itemHeightWithGap) + 1
      length_ == rowsInView * m.columns
      rowsBeforeView == IF m.itemHeightWithGap = 0 THEN 0
                        ELSE Floor(heightAboveWindow_ + m.rowGap, m.itemHeightWithGap)
      offset == rowsBeforeView * m.columns
  IN [bufferedOffset |-> Max(offset + Floor(length_, 2), 0),
      bufferedLength |-> length_ * 2]

getBufferMeta(windowInnerHeight_, heightAboveWindow_, m) ==
  LET rowsInView == IF m.itemHeightWithGap = 0 THEN 0
                    ELSE Ceil(windowInnerHeight_ + m.rowGap, m.itemHeightWithGap) + 1
      length_ == rowsInView * m.columns
      rowsBeforeView == IF m.itemHeightWithGap = 0 THEN 0
                        ELSE Floor(heightAboveWindow_ + m.rowGap, m.itemHeightWithGap)
      offset == rowsBeforeView * m.columns
  IN [bufferedOffset |-> Max(offset - Floor(length_, 2), 0),
      bufferedLength |-> length_ * 2]

\* getObservableOfVisiblePageNumbers that rounds the end page down
getObservableOfVisiblePageNumbersFloorEnd(meta, length_, pageSize_) ==
  LET startPage == Floor(meta.bufferedOffset, pageSize_)
      endPage == Floor(Min(meta.bufferedOffset + meta.bufferedLength, length_), pageSize_)
  IN [start |-> startPage, count |-> endPage - startPage]

\* range(startPage, numberOfPages), not yet subscribed
getObservableOfVisiblePageNumbers(meta, length_, pageSize_) ==
  LET startPage == Floor(meta.bufferedOffset, pageSize_)
      endPage == Ceil(Min(meta.bufferedOffset + meta.bufferedLength, length_), pageSize_)
  IN [start |-> startPage, count |-> endPage - startPage]

\* the numbers a range emits when subscribed
RangePages(r) == [i \in 1..Max(r.count, 0) |-> r.start + i - 1]

\* accumulateAllItems that inserts the page without removing the slice before
accumulateAllItemsNoRemove(allItems_, page, length_, pageSize_) ==
  LET allItemsFill == fill(Max(length_ - Len(allItems_), 0))
      pageFill == fill(Max(pageSize_ - Len(page.items), 0))
      normalizedItems == concat(slice(0, pageSize_, page.items), pageFill)
      padded == concat(allItems_, allItemsFill)
      inserted == insertAll(page.pageNumber * pageSize_, normalizedItems, padded)
  IN slice(0, length_, inserted)

\* accumulateAllItems without the closing slice(0, length)
accumulateAllItemsNoSlice(allItems_, page, length_, pageSize_) ==
  LET allItemsFill == fill(Max(length_ - Len(allItems_), 0))
      pageFill == fill(Max(pageSize_ - Len(page.items), 0))
      normalizedItems == concat(slice(0, pageSize_, page.items), pageFill)
      padded == concat(allItems_, allItemsFill)
      removed == remove(page.pageNumber * pageSize_, pageSize_, padded)
  IN insertAll(page.pageNumber * pageSize_, normalizedItems, removed)

\* accumulateAllItems that splices at pageNumber instead of pageNumber * pageSize
accumulateAllItemsAtPageNumber(allItems_, page, length_, pageSize_) ==
  LET allItemsFill == fill(Max(length_ - Len(allItems_), 0))
      pageFill == fill(Max(pageSize_ - Len(page.items), 0))
      normalizedItems == concat(slice(0, pageSize_, page.items), pageFill)
      padded == concat(allItems_, allItemsFill)
      removed == remove(page.pageNumber, pageSize_, padded)
      inserted == insertAll(page.pageNumber, normalizedItems, removed)
  IN slice(0, length_, inserted)

accumulateAllItems(allItems_, page, length_, pageSize_) ==
  LET allItemsFill == fill(Max(length_ - Len(allItems_), 0))
      pageFill == fill(Max(pageSize_ - Len(page.items), 0))
      normalizedItems == concat(slice(0, pageSize_, page.items), pageFill)
      padded == concat(allItems_, allItemsFill)
      removed == remove(page.pageNumber * pageSize_, pageSize_, padded)
      inserted == insertAll(page.pageNumber * pageSize_, normalizedItems, removed)
  IN slice(0, length_, inserted)

\* getVisibleItems that takes the index within the window for the index
getVisibleItemsLocalIndex(meta, m, allItems_) ==
  LET visible == slice(meta.bufferedOffset, meta.bufferedOffset + meta.bufferedLength,
                       allItems_)
  IN [localIndex \in 1..Len(visible) |->
        LET index == localIndex - 1
        IN [index |-> index,
            value |-> visible[localIndex],
            x |-> (index % m.columns) * m.itemWidthWithGap,
            y |-> Floor(index, m.columns) * m.itemHeightWithGap]]

getVisibleItems(meta, m, allItems_) ==
  LET visible == slice(meta.bufferedOffset, meta.bufferedOffset + meta.bufferedLength,
                       allItems_)
  IN [localIndex \in 1..Len(visible) |->
        LET index == meta.bufferedOffset + localIndex - 1
        IN [index |-> index,
            value |-> visible[localIndex],
            x |-> (index % m.columns) * m.itemWidthWithGap,
            y |-> Floor(index, m.columns) * m.itemHeightWithGap]]

\* replaceMap.get(item) ?? item, replaceMap the Map of zip(from, to)
Replace(item, from, to) ==
  IF \E i \in 1..Min(Len(from), Len(to)) : from[i] = item
  THEN to[CHOOSE i \in 1..Min(Len(from), Len(to)) : from[i] = item]
  ELSE item

\* accumulateBuffer that keeps the freed slots it found no replacement for
accumulateBufferKeepFreed(buffer_, visibleItems_) ==
  LET itemsToAdd == difference(visibleItems_, buffer_)
      itemsFreeToUse == difference(buffer_, visibleItems_)
      replaceMap == zip(itemsFreeToUse, itemsToAdd)
      itemsToBeReplaced == [i \in 1..Len(replaceMap) |-> replaceMap[i][1]]
      itemsToReplaceWith == [i \in 1..Len(replaceMap) |-> replaceMap[i][2]]
      itemsToAppend == difference(itemsToAdd, itemsToReplaceWith)
      replaced == [i \in 1..Len(buffer_) |->
                     Replace(buffer_[i], itemsToBeReplaced, itemsToReplaceWith)]
  IN concat(replaced, itemsToAppend)

accumulateBuffer(buffer_, visibleItems_) ==
  LET itemsToAdd == difference(visibleItems_, buffer_)
      itemsFreeToUse == difference(buffer_, visibleItems_)
      replaceMap == zip(itemsFreeToUse, itemsToAdd)
      itemsToBeReplaced == [i \in 1..Len(replaceMap) |-> replaceMap[i][1]]
      itemsToReplaceWith == [i \in 1..Len(replaceMap) |-> replaceMap[i][2]]
      itemsToDelete == difference(itemsFreeToUse, itemsToBeReplaced)
      itemsToAppend == difference(itemsToAdd, itemsToReplaceWith)
      kept == without(itemsToDelete, buffer_)
      replaced == [i \in 1..Len(kept) |->
                     Replace(kept[i], itemsToBeReplaced, itemsToReplaceWith)]
  IN concat(replaced, itemsToAppend)

\* accumulateBuffer object by object. An object is the at-th element of the
\* array named from; equals compares the slots of two objects, a Map looks an
\* object up by what it is.
Objects(from, list) == [k \in 1..Len(list) |-> [from |-> from, at |-> k, slot |-> list[k]]]
Identities(objects) == [k \in 1..Len(objects) |-> [from |-> objects[k].from, at |-> objects[k].at]]
Slots(objects) == [k \in 1..Len(objects) |-> objects[k].slot]

ContainsEqual(list, x) == \E i \in 1..Len(list) : list[i].slot = x.slot
UniqEqual(list) ==
  LET first(i) == \A j \in 1..(i - 1) : list[j].slot # list[i].slot
      kept == {i \in 1..Len(list) : first(i)}
      nth[k \in 1..Cardinality(kept)] ==
        CHOOSE i \in kept : Cardinality({j \in kept : j < i}) = k - 1
  IN [k \in 1..Cardinality(kept) |-> list[nth[k]]]
differenceObjects(a, b) == UniqEqual(SelectSeq(a, LAMBDA e : ~ContainsEqual(b, e)))
withoutObjects(xs, list) == SelectSeq(list, LAMBDA e : ~ContainsEqual(xs, e))
\* replaceMap.get(item) ?? item, replaceMap the Map of zip(from, to)
ReplaceObject(item, from, to) ==
  IF \E i \in 1..Min(Len(from), Len(to)) : from[i] = item
  THEN to[CHOOSE i \in 1..Min(Len(from), Len(to)) : from[i] = item]
  ELSE item

\* accumulateBuffer that hands out the object of the projection for a slot it
\* could have kept
accumulateBufferObjectsAllNew(buffer_, visibleItems_) ==
  LET itemsToAdd == differenceObjects(visibleItems_, buffer_)
      itemsFreeToUse == differenceObjects(buffer_, visibleItems_)
      replaceMap == zip(itemsFreeToUse, itemsToAdd)
      itemsToBeReplaced == [i \in 1..Len(replaceMap) |-> replaceMap[i][1]]
      itemsToReplaceWith == [i \in 1..Len(replaceMap) |-> replaceMap[i][2]]
      itemsToDelete == differenceObjects(itemsFreeToUse, itemsToBeReplaced)
      itemsToAppend == differenceObjects(itemsToAdd, itemsToReplaceWith)
      kept == withoutObjects(itemsToDelete, buffer_)
      replaced == [i \in 1..Len(kept) |->
                     ReplaceObject(kept[i], itemsToBeReplaced, itemsToReplaceWith)]
      out == concat(replaced, itemsToAppend)
  IN [j \in 1..Len(out) |->
        visibleItems_[CHOOSE k \in 1..Len(visibleItems_) : visibleItems_[k].slot = out[j].slot]]

\* accumulateBuffer that puts the slots it appends in front
accumulateBufferObjectsPrepend(buffer_, visibleItems_) ==
  LET itemsToAdd == differenceObjects(visibleItems_, buffer_)
      itemsFreeToUse == differenceObjects(buffer_, visibleItems_)
      replaceMap == zip(itemsFreeToUse, itemsToAdd)
      itemsToBeReplaced == [i \in 1..Len(replaceMap) |-> replaceMap[i][1]]
      itemsToReplaceWith == [i \in 1..Len(replaceMap) |-> replaceMap[i][2]]
      itemsToDelete == differenceObjects(itemsFreeToUse, itemsToBeReplaced)
      itemsToAppend == differenceObjects(itemsToAdd, itemsToReplaceWith)
      kept == withoutObjects(itemsToDelete, buffer_)
      replaced == [i \in 1..Len(kept) |->
                     ReplaceObject(kept[i], itemsToBeReplaced, itemsToReplaceWith)]
  IN concat(itemsToAppend, replaced)

accumulateBufferObjects(buffer_, visibleItems_) ==
  LET itemsToAdd == differenceObjects(visibleItems_, buffer_)
      itemsFreeToUse == differenceObjects(buffer_, visibleItems_)
      replaceMap == zip(itemsFreeToUse, itemsToAdd)
      itemsToBeReplaced == [i \in 1..Len(replaceMap) |-> replaceMap[i][1]]
      itemsToReplaceWith == [i \in 1..Len(replaceMap) |-> replaceMap[i][2]]
      itemsToDelete == differenceObjects(itemsFreeToUse, itemsToBeReplaced)
      itemsToAppend == differenceObjects(itemsToAdd, itemsToReplaceWith)
      kept == withoutObjects(itemsToDelete, buffer_)
      replaced == [i \in 1..Len(kept) |->
                     ReplaceObject(kept[i], itemsToBeReplaced, itemsToReplaceWith)]
  IN concat(replaced, itemsToAppend)

\* what the map of scrollAction$ reads of the DOM besides the measurement
topToGridContainer == 0
gridPaddingTop == 0
gridBoarderTop == 0

\* scrollTop that takes the index for the row
scrollTopOfIndex(scrollTo_, m) ==
  scrollTo_ * m.itemHeightWithGap + topToGridContainer + gridPaddingTop + gridBoarderTop

\* the scrollTop of the ScrollAction for scrollTo and a measurement
scrollTop(scrollTo_, m) ==
  Floor(scrollTo_, m.columns) * m.itemHeightWithGap
    + topToGridContainer + gridPaddingTop + gridBoarderTop

\* -------------------------------------------------------------------- state
VARIABLES
  length,                    \* the latest value of length$
  pageSize,                  \* the latest value of pageSize$
  pageProvider,              \* the latest value of pageProvider$
  pageProviderDebounceTime,  \* the latest value of pageProviderDebounceTime$
  observed,                  \* which of rootResize$ and itemRect$ have emitted
  heightAboveWindow,         \* the latest value of heightAboveWindow$
  resizeMeasurement,         \* the latest value of resizeMeasurement$
  bufferMeta,                \* the latest value of bufferMeta$
  pageSizeSubs,              \* the subscribers of pageSize$, in subscription order
  pending,                   \* the range debounceTime holds until its timer fires
  distinctKeys,              \* the Set of distinct(identity, flushes)
  lastPageNumber,            \* the latest pageNumber$ value of itemsByPage$'s combineLatest
  calls,                     \* the bag of callPageProvider calls so far, settled or not
  epoch,                     \* the number of pageSize$ and pageProvider$ emissions so far
  lastItemsByPage,           \* the value shareReplay(1) replays
  allItems,                  \* the accumulator of scan(accumulateAllItems, [])
  visibleItems,              \* the latest projection handed to scan(accumulateBuffer, [])
  buffer,                    \* the accumulator of scan(accumulateBuffer, [])
  foldStart,                 \* the collection a fold of pages started from
  foldPrior,                 \* the collection before the latest page was folded in
  folded,                    \* the pages folded into allItems since foldStart
  innerHeight,               \* window.innerHeight as getBufferMeta() read it
  bufferPrior,               \* the buffer before the latest step of the recycler
  recycled,                  \* where each object of buffer comes from, by position
  failed,                    \* itemsByPage$ has errored, and allItems$ and buffer$ with it
  scrollTo,                  \* the latest value of scrollTo$
  scrollPending,             \* the request the switchMap of scrollAction$ waits with
  scrollActions,             \* the values scrollAction$ has emitted
  scrollRequests             \* the values of scrollTo$ that were not nil

inputs == <<length, pageSize, pageProvider, pageProviderDebounceTime>>
geometry == <<observed, heightAboveWindow, resizeMeasurement, bufferMeta>>
fetching == <<pending, distinctKeys, lastPageNumber, calls, epoch>>
items == <<lastItemsByPage, allItems>>
rendering == <<visibleItems, buffer>>
folding == <<foldStart, foldPrior, folded>>
recycling == <<bufferPrior, recycled>>
scrolling == <<scrollTo, scrollPending, scrollActions, scrollRequests>>
\* what the pipeline fed by length$, pageSize$, pageProvider$, the debounce time
\* and the measurements, with providers that keep their promises, leaves alone
apart == <<folding, innerHeight, recycling, failed>>
vars == <<inputs, geometry, pageSizeSubs, fetching, items, rendering, apart, scrolling>>

Measurements ==
  [rowGap : {0}, columns : 1..MaxColumns, itemHeightWithGap : 1..MaxItemHeight,
   itemWidthWithGap : {1}]

\* The subscribers of pageSize$: the combineLatest of visiblePageNumbers$, the
\* flushes of distinct, the combineLatest of itemsByPage$, the combineLatest of
\* allItems$. pageProviderDebounceTime$ has a value when pageNumber$ is
\* subscribed, so visiblePageNumbers$ is subscribed before distinct subscribes
\* its flushes.
InitialSubs == <<"visiblePageNumbers", "flushes", "itemsByPage", "allItems">>

Init ==
  /\ length \in 0..MaxLength
  /\ pageSize \in 1..MaxPageSize
  /\ pageProvider = 1
  /\ pageProviderDebounceTime \in 0..MaxTime
  /\ observed = {}
  /\ heightAboveWindow = NoNumber
  /\ resizeMeasurement = NoMeasurement
  /\ bufferMeta = NoMeta
  /\ pageSizeSubs = InitialSubs
  /\ pending = NoRange
  /\ distinctKeys = {}
  /\ lastPageNumber = NoNumber
  /\ calls = EmptyBag
  /\ epoch = 0
  /\ lastItemsByPage = NoPage
  /\ allItems = <<>>
  /\ visibleItems = <<>>
  /\ buffer = <<>>
  /\ foldStart = <<>>
  /\ foldPrior = <<>>
  /\ folded = <<>>
  /\ innerHeight = windowInnerHeight
  /\ bufferPrior = <<>>
  /\ recycled = <<>>
  /\ failed = FALSE
  /\ scrollTo = Nil
  /\ scrollPending = NoNumber
  /\ scrollActions = <<>>
  /\ scrollRequests = <<>>

\* ------------------------------------------------- the page-fetching side
\* fs = [keys, last, calls, pend]: distinctKeys, lastPageNumber, calls, pending
FetchState == [keys |-> distinctKeys, last |-> lastPageNumber, calls |-> calls,
               pend |-> pending]

\* mergeMap(apply(callPageProvider)) on one value of itemsByPage$'s combineLatest
callPageProvider(fs, pageNumber, pageSize_, pageProvider_, epoch_, cause) ==
  [fs EXCEPT !.calls = @ (+) SetToBag({[pageNumber |-> pageNumber, pageSize |-> pageSize_,
                                        pageProvider |-> pageProvider_, epoch |-> epoch_,
                                        cause |-> cause, settled |-> FALSE]})]

\* distinct: one page number out of mergeAll
Distinct(fs, pageNumber, pageSize_, pageProvider_, epoch_) ==
  IF pageNumber \in fs.keys THEN fs
  ELSE callPageProvider([fs EXCEPT !.keys = @ \cup {pageNumber}, !.last = pageNumber],
                        pageNumber, pageSize_, pageProvider_, epoch_, "pageNumber")

RECURSIVE MergeAll(_, _, _, _, _)
\* mergeAll: a subscribed range emits its numbers in order
MergeAll(fs, pages, pageSize_, pageProvider_, epoch_) ==
  IF pages = <<>> THEN fs
  ELSE MergeAll(Distinct(fs, Head(pages), pageSize_, pageProvider_, epoch_),
                Tail(pages), pageSize_, pageProvider_, epoch_)

\* one value of visiblePageNumbers$: through at once when time is 0, held by
\* debounceTime(time) otherwise
VisiblePageNumbers(fs, time, range, pageSize_, pageProvider_, epoch_) ==
  IF time = 0 THEN MergeAll(fs, RangePages(range), pageSize_, pageProvider_, epoch_)
  ELSE [fs EXCEPT !.pend = range]

\* -------------------------------------------------------- bufferMeta$
\* What bufferMeta$ emits when heightAboveWindow$ goes from h0 to h1 and then
\* resizeMeasurement$ from m0 to m1: combineLatest emits per source, and
\* distinctUntilChanged(equals) drops a value equal to the one before.
BufferMetas(meta, h0, m0, h1, m1) ==
  LET a == IF h1 # h0 /\ m0 # NoMeasurement THEN getBufferMeta(innerHeight, h1, m0)
           ELSE meta
      b == IF m1 # m0 /\ h1 # NoNumber THEN getBufferMeta(innerHeight, h1, m1) ELSE a
  IN (IF a # meta THEN <<a>> ELSE <<>>) \o (IF b # a THEN <<b>> ELSE <<>>)

LastOf(list, default) == IF list = <<>> THEN default ELSE list[Len(list)]

RECURSIVE Windows(_, _, _, _, _, _, _)
\* visiblePageNumbers$ for every value of bufferMeta$ in metas
Windows(fs, metas, time, length_, pageSize_, pageProvider_, epoch_) ==
  IF metas = <<>> THEN fs
  ELSE Windows(VisiblePageNumbers(fs, time,
                 getObservableOfVisiblePageNumbers(Head(metas), length_, pageSize_),
                 pageSize_, pageProvider_, epoch_),
               Tail(metas), time, length_, pageSize_, pageProvider_, epoch_)

\* ------------------------------------------------------ the rendering side
\* rs = [vis, buf]: visibleItems, buffer
RenderState == [vis |-> visibleItems, buf |-> buffer]

\* one value of buffer$'s combineLatest, which emits once bufferMeta$,
\* resizeMeasurement$ and allItems$ all have a value
Render(rs, meta, m, emitted, allItems_) ==
  IF meta = NoMeta \/ m = NoMeasurement \/ ~emitted THEN rs
  ELSE LET v == getVisibleItems(meta, m, allItems_)
       IN [vis |-> v, buf |-> accumulateBuffer(rs.buf, v)]

RECURSIVE Renders(_, _, _, _, _)
Renders(rs, metas, m, emitted, allItems_) ==
  IF metas = <<>> THEN rs
  ELSE Renders(Render(rs, Head(metas), m, emitted, allItems_), Tail(metas), m,
               emitted, allItems_)

\* allItems$ has emitted once itemsByPage$ has
Emitted == lastItemsByPage # NoPage

\* ---------------------------------------------------------------- actions
SetFetchState(fs) ==
  /\ BagCardinality(fs.calls) <= MaxCalls
  /\ pending' = fs.pend
  /\ distinctKeys' = fs.keys
  /\ lastPageNumber' = fs.last
  /\ calls' = fs.calls

SetRenderState(rs) ==
  /\ visibleItems' = rs.vis
  /\ buffer' = rs.buf

\* the value of scrollAction$ for a request and the measurement it met
ScrollAction(scrollTo_, m) ==
  [scrollTo |-> scrollTo_, columns |-> m.columns,
   itemHeightWithGap |-> m.itemHeightWithGap, scrollTop |-> scrollTop(scrollTo_, m)]

\* resizeMeasurement$ and rootResize$ go to m and the root element: the
\* combineLatest a request waits with emits once both have a value, take(1)
\* completes it
ScrollActionOn(m) ==
  IF scrollPending # NoNumber /\ m # NoMeasurement
  THEN /\ scrollActions' = Append(scrollActions, ScrollAction(scrollPending, m))
       /\ scrollPending' = NoNumber
  ELSE UNCHANGED <<scrollPending, scrollActions>>

\* heightAboveWindow$ and resizeMeasurement$ go to h and m: bufferMeta$ feeds
\* buffer$ and visiblePageNumbers$, then resizeMeasurement$ feeds buffer$
Measure(h, m) ==
  LET metas == BufferMetas(bufferMeta, heightAboveWindow, resizeMeasurement, h, m)
      meta == LastOf(metas, bufferMeta)
      rs == Renders(RenderState, metas, resizeMeasurement, Emitted, allItems)
  IN /\ heightAboveWindow' = h
     /\ resizeMeasurement' = m
     /\ bufferMeta' = meta
     /\ SetFetchState(Windows(FetchState, metas, pageProviderDebounceTime, length,
                              pageSize, pageProvider, epoch))
     /\ SetRenderState(IF m # resizeMeasurement THEN Render(rs, meta, m, Emitted, allItems)
                       ELSE rs)
     /\ ScrollActionOn(m)
     /\ UNCHANGED <<inputs, pageSizeSubs, epoch, items, apart, scrollTo, scrollRequests>>

\* scroll$ emits the root element
Scroll(h) ==
  /\ h # heightAboveWindow
  /\ observed' = observed
  /\ Measure(h, resizeMeasurement)

\* rootResize$ emits the root element, h above the window and measuring m
RootResize(h, m) ==
  /\ observed' = observed \cup {"rootResize"}
  /\ Measure(h, IF "itemRect" \in observed THEN m ELSE NoMeasurement)

\* itemRect$ emits the rectangle of an item, the grid measuring m with it
ItemRect(m) ==
  /\ observed' = observed \cup {"itemRect"}
  /\ Measure(heightAboveWindow, IF "rootResize" \in observed THEN m ELSE NoMeasurement)

\* length$ emits n: visiblePageNumbers$ emits a range, and replayLength$ makes the
\* combineLatest of allItems$ emit the latest page again
LengthChange(n) ==
  LET a == accumulateAllItems(allItems, lastItemsByPage, n, pageSize)
  IN /\ n # length
     /\ length' = n
     /\ SetFetchState(IF bufferMeta = NoMeta THEN FetchState
                      ELSE VisiblePageNumbers(FetchState, pageProviderDebounceTime,
                             getObservableOfVisiblePageNumbers(bufferMeta, n, pageSize),
                             pageSize, pageProvider, epoch))
     /\ allItems' = IF Emitted THEN a ELSE allItems
     /\ SetRenderState(IF Emitted
                       THEN Render(RenderState, bufferMeta, resizeMeasurement, TRUE, a)
                       ELSE RenderState)
     /\ UNCHANGED <<pageSize, pageProvider, pageProviderDebounceTime, geometry,
                    pageSizeSubs, epoch, lastItemsByPage, apart, scrolling>>

RECURSIVE PageSizeSubscribers(_, _, _)
\* pageSize$ emits s to its subscribers in order. c = [fs, size, all, rs]: size is
\* the pageSize the combineLatest of itemsByPage$ holds, all the accumulator of
\* allItems$
PageSizeSubscribers(c, subs, s) ==
  IF subs = <<>> THEN c
  ELSE LET sub == Head(subs)
           a == accumulateAllItems(c.all, lastItemsByPage, length, s)
           d == CASE sub = "visiblePageNumbers" ->
                       IF bufferMeta = NoMeta THEN c
                       ELSE [c EXCEPT !.fs = VisiblePageNumbers(@, pageProviderDebounceTime,
                                 getObservableOfVisiblePageNumbers(bufferMeta, length, s),
                                 c.size, pageProvider, epoch + 1)]
                  [] sub = "flushes" -> [c EXCEPT !.fs.keys = {}]
                  [] sub = "itemsByPage" ->
                       [c EXCEPT !.size = s,
                                 !.fs = IF @.last = NoNumber THEN @
                                        ELSE callPageProvider(@, @.last, s, pageProvider,
                                                              epoch + 1, "pageSize")]
                  [] sub = "allItems" ->
                       IF ~Emitted THEN c
                       ELSE [c EXCEPT !.all = a,
                                      !.rs = Render(@, bufferMeta, resizeMeasurement, TRUE, a)]
       IN PageSizeSubscribers(d, Tail(subs), s)

PageSizeChange(s) ==
  LET c == PageSizeSubscribers([fs |-> FetchState, size |-> pageSize, all |-> allItems,
                                rs |-> RenderState], pageSizeSubs, s)
  IN /\ s # pageSize
     /\ epoch < MaxEpoch
     /\ pageSize' = s
     /\ epoch' = epoch + 1
     /\ SetFetchState(c.fs)
     /\ allItems' = c.all
     /\ SetRenderState(c.rs)
     /\ UNCHANGED <<length, pageProvider, pageProviderDebounceTime, geometry,
                    pageSizeSubs, lastItemsByPage, apart, scrolling>>

\* the subscribers of pageSize$ after sub subscribed again
Resubscribed(subs, sub) == SelectSeq(subs, LAMBDA x : x # sub) \o <<sub>>

\* pageProvider$ emits p to its subscribers in order: the switchMap of allItems$
\* (which subscribes a new combineLatest, to which shareReplay(1) replays), the
\* flushes of distinct, the combineLatest of itemsByPage$
PageProviderChange(p) ==
  LET a == accumulateAllItems(allItems, lastItemsByPage, length, pageSize)
      flushed == [FetchState EXCEPT !.keys = {}]
  IN /\ p # pageProvider
     /\ epoch < MaxEpoch
     /\ pageProvider' = p
     /\ epoch' = epoch + 1
     /\ pageSizeSubs' = Resubscribed(pageSizeSubs, "allItems")
     /\ allItems' = IF Emitted THEN a ELSE allItems
     /\ SetRenderState(IF Emitted
                       THEN Render(RenderState, bufferMeta, resizeMeasurement, TRUE, a)
                       ELSE RenderState)
     /\ SetFetchState(IF lastPageNumber = NoNumber THEN flushed
                      ELSE callPageProvider(flushed, lastPageNumber, pageSize, p,
                                            epoch + 1, "pageProvider"))
     /\ UNCHANGED <<length, pageSize, pageProviderDebounceTime, geometry,
                    lastItemsByPage, apart, scrolling>>

\* pageProviderDebounceTime$ emits time: switchMap unsubscribes the debounceTime
\* of before, dropping what it holds, and subscribes visiblePageNumbers$ again,
\* which emits the range of the current window
DebounceTimeChange(time) ==
  LET dropped == [FetchState EXCEPT !.pend = NoRange]
  IN /\ time # pageProviderDebounceTime
     /\ pageProviderDebounceTime' = time
     /\ pageSizeSubs' = Resubscribed(pageSizeSubs, "visiblePageNumbers")
     /\ SetFetchState(IF bufferMeta = NoMeta THEN dropped
                      ELSE VisiblePageNumbers(dropped, time,
                             getObservableOfVisiblePageNumbers(bufferMeta, length, pageSize),
                             pageSize, pageProvider, epoch))
     /\ UNCHANGED <<length, pageSize, pageProvider, geometry, epoch, items, rendering,
                    apart, scrolling>>

\* the timer of debounceTime fires: the held range goes to mergeAll
DebounceFire ==
  /\ pending # NoRange
  /\ SetFetchState(MergeAll([FetchState EXCEPT !.pend = NoRange], RangePages(pending),
                            pageSize, pageProvider, epoch))
  /\ UNCHANGED <<inputs, geometry, pageSizeSubs, epoch, items, rendering, apart,
                 scrolling>>

\* what provider prov returns for (pageNumber, pageSize): the values it holds for
\* the indices of that page
PageItems(prov, pageNumber, pageSize_) ==
  [j \in 1..pageSize_ |-> Item(prov, pageNumber * pageSize_ + j - 1)]

\* the promise of a call resolves: itemsByPage$ emits, shareReplay(1) keeps the
\* page, the combineLatest of allItems$ emits it with the current length and
\* pageSize, and buffer$ follows
Resolve(call) ==
  LET page == [pageNumber |-> call.pageNumber,
               items |-> PageItems(call.pageProvider, call.pageNumber, call.pageSize)]
      a == accumulateAllItems(allItems, page, length, pageSize)
  IN /\ ~call.settled
     /\ calls' = (calls (-) SetToBag({call})) (+) SetToBag({[call EXCEPT !.settled = TRUE]})
     /\ lastItemsByPage' = page
     /\ allItems' = a
     /\ SetRenderState(Render(RenderState, bufferMeta, resizeMeasurement, TRUE, a))
     /\ UNCHANGED <<inputs, geometry, pageSizeSubs, pending, distinctKeys,
                    lastPageNumber, epoch, apart, scrolling>>

Next ==
  \/ \E h \in 0..MaxHeight : Scroll(h)
  \/ \E h \in 0..MaxHeight, m \in Measurements : RootResize(h, m)
  \/ \E m \in Measurements : ItemRect(m)
  \/ \E n \in 0..MaxLength : LengthChange(n)
  \/ \E s \in 1..MaxPageSize : PageSizeChange(s)
  \/ \E p \in 1..MaxProvider : PageProviderChange(p)
  \/ \E time \in 0..MaxTime : DebounceTimeChange(time)
  \/ DebounceFire
  \/ \E call \in BagToSet(calls) : Resolve(call)

Spec == Init /\ [][Next]_vars

\* ------------------------------------------------ a provider that rejects
\* the call after its promise settled
Settle(call) == (calls (-) SetToBag({call})) (+) SetToBag({[call EXCEPT !.settled = TRUE]})

\* the promise of a call rejects: mergeMap passes the error on and unsubscribes
\* its source and the promises in flight; shareReplay, the combineLatest and the
\* scan of allItems$ and the combineLatest and the scan of buffer$ pass it on,
\* each unsubscribing its sources, the debounceTime among them
Reject(call) ==
  /\ ~failed
  /\ ~call.settled
  /\ failed' = TRUE
  /\ calls' = Settle(call)
  /\ pending' = NoRange
  /\ UNCHANGED <<inputs, geometry, pageSizeSubs, distinctKeys, lastPageNumber, epoch,
                 items, rendering, folding, innerHeight, recycling, scrolling>>

\* the promise of a call resolves after the error: nothing is subscribed to it
ResolveUnsubscribed(call) ==
  /\ failed
  /\ ~call.settled
  /\ calls' = Settle(call)
  /\ UNCHANGED <<inputs, geometry, pageSizeSubs, pending, distinctKeys, lastPageNumber,
                 epoch, items, rendering, apart, scrolling>>

\* length$ emits n after the error: nothing is subscribed to it
LengthChangeUnsubscribed(n) ==
  /\ failed
  /\ n # length
  /\ length' = n
  /\ UNCHANGED <<pageSize, pageProvider, pageProviderDebounceTime, geometry,
                 pageSizeSubs, fetching, items, rendering, apart, scrolling>>

\* The pipeline with a provider whose promises may reject, for a pageSize, a
\* provider and a debounce time that stay as they are. After the error
\* heightAboveWindow$, resizeMeasurement$ and bufferMeta$ have no subscriber.
NextReject ==
  \/ ~failed /\ \E h \in 0..MaxHeight : Scroll(h)
  \/ ~failed /\ \E h \in 0..MaxHeight, m \in Measurements : RootResize(h, m)
  \/ ~failed /\ \E m \in Measurements : ItemRect(m)
  \/ ~failed /\ \E n \in 0..MaxLength : LengthChange(n)
  \/ ~failed /\ DebounceFire
  \/ ~failed /\ \E call \in BagToSet(calls) : Resolve(call)
  \/ \E call \in BagToSet(calls) : Reject(call)
  \/ \E call \in BagToSet(calls) : ResolveUnsubscribed(call)
  \/ \E n \in 0..MaxLength : LengthChangeUnsubscribed(n)

SpecReject == Init /\ [][NextReject]_vars

\* ---------------------------------------------------------- scrollAction$
\* scrollTo$ emits i: filter drops nil; switchMap unsubscribes the combineLatest
\* of the request before, if it still waits, and subscribes one for i, which
\* emits at once when resizeMeasurement$ and rootResize$ have a value
ScrollTo(i) ==
  /\ scrollTo' = i
  /\ IF i = Nil THEN UNCHANGED <<scrollPending, scrollActions, scrollRequests>>
     ELSE /\ Len(scrollRequests) < MaxRequests
          /\ scrollRequests' = Append(scrollRequests,
                 [scrollTo |-> i, measured |-> resizeMeasurement # NoMeasurement])
          /\ IF resizeMeasurement # NoMeasurement
             THEN /\ scrollActions' = Append(scrollActions, ScrollAction(i, resizeMeasurement))
                  /\ scrollPending' = NoNumber
             ELSE /\ scrollPending' = i
                  /\ UNCHANGED scrollActions
  /\ UNCHANGED <<inputs, geometry, pageSizeSubs, fetching, items, rendering, apart>>

\* the pipeline of an empty grid (length 0: no page to fetch) at the top of the
\* window that is asked to scroll before and after it is measured
InitScroll == Init /\ length = 0 /\ pageSize = 1 /\ pageProviderDebounceTime = 0

NextScroll ==
  \/ \E i \in {Nil} \cup 0..MaxIndex : ScrollTo(i)
  \/ \E m \in Measurements : RootResize(0, m)
  \/ \E m \in Measurements : ItemRect(m)

SpecScroll == InitScroll /\ [][NextScroll]_vars

\* ------------------------------------------- accumulateAllItems on its own
\* scan(accumulateAllItems, []) fed with pages of pairwise distinct numbers in
\* any order, for a fixed length and pageSize, from any collection
pipelineAtRest ==
  /\ pageProvider = 1
  /\ pageProviderDebounceTime = 0
  /\ observed = {}
  /\ heightAboveWindow = NoNumber
  /\ pageSizeSubs = InitialSubs
  /\ pending = NoRange
  /\ distinctKeys = {}
  /\ lastPageNumber = NoNumber
  /\ calls = EmptyBag
  /\ epoch = 0
  /\ lastItemsByPage = NoPage
  /\ failed = FALSE
  /\ scrollTo = Nil
  /\ scrollPending = NoNumber
  /\ scrollActions = <<>>
  /\ scrollRequests = <<>>

\* the collections of n slots, each a hole or a known value
Collections(n) == {[i \in 1..n |-> IF i \in known THEN Item(1, i - 1) ELSE Undefined] :
                     known \in SUBSET (1..n)}

InitAccumulate ==
  /\ pipelineAtRest
  /\ innerHeight = windowInnerHeight
  /\ length \in 0..MaxLength
  /\ pageSize \in 1..MaxPageSize
  /\ allItems \in UNION {Collections(n) : n \in 0..MaxLength}
  /\ foldStart = allItems
  /\ foldPrior = allItems
  /\ folded = <<>>
  /\ resizeMeasurement = NoMeasurement
  /\ bufferMeta = NoMeta
  /\ visibleItems = <<>>
  /\ buffer = <<>>
  /\ bufferPrior = <<>>
  /\ recycled = <<>>

\* itemsByPage$ emits page pageNumber with n items: one step of the scan
Accumulate(pageNumber, n) ==
  LET page == [pageNumber |-> pageNumber,
               items |-> [j \in 1..n |-> Item(2, pageNumber * pageSize + j - 1)]]
  IN /\ Len(folded) < MaxFold
     /\ \A i \in 1..Len(folded) : folded[i].pageNumber # pageNumber
     /\ n \in {pageSize - 1, pageSize, pageSize + 1}
     /\ foldPrior' = allItems
     /\ allItems' = accumulateAllItems(allItems, page, length, pageSize)
     /\ folded' = Append(folded, page)
     /\ UNCHANGED <<inputs, geometry, pageSizeSubs, fetching, lastItemsByPage,
                    rendering, foldStart, innerHeight, recycling, failed, scrolling>>

NextAccumulate == \E pageNumber \in 0..MaxPage, n \in 0..(MaxPageSize + 1) :
                    Accumulate(pageNumber, n)

SpecAccumulate == InitAccumulate /\ [][NextAccumulate]_vars

\* ------------------------------- getVisibleItems and accumulateBuffer alone
\* buffer$ fed by sources that emit any window, measurement and collection,
\* one source at a time as combineLatest sees them
Metas == [bufferedOffset : 0..MaxOffset, bufferedLength : 0..MaxWindow]

InitRender ==
  /\ pipelineAtRest
  /\ innerHeight = windowInnerHeight
  /\ length = 0
  /\ pageSize = 1
  /\ bufferMeta \in Metas
  /\ resizeMeasurement \in Measurements
  /\ allItems = <<>>
  /\ visibleItems = <<>>
  /\ buffer = <<>>
  /\ bufferPrior = <<>>
  /\ recycled = <<>>
  /\ foldStart = <<>>
  /\ foldPrior = <<>>
  /\ folded = <<>>

Projection(meta, m, allItems_) ==
  /\ bufferMeta' = meta
  /\ resizeMeasurement' = m
  /\ allItems' = allItems_
  /\ SetRenderState(Render(RenderState, meta, m, TRUE, allItems_))
  /\ UNCHANGED <<inputs, observed, heightAboveWindow, pageSizeSubs, fetching,
                 lastItemsByPage, folding, innerHeight, failed, scrolling>>

Project(meta, m, allItems_) == Projection(meta, m, allItems_) /\ UNCHANGED recycling

\* bufferMeta$ emits
ProjectMeta(meta) == meta # bufferMeta /\ Project(meta, resizeMeasurement, allItems)
\* resizeMeasurement$ emits
ProjectMeasurement(m) == m # resizeMeasurement /\ Project(bufferMeta, m, allItems)
\* allItems$ emits
ProjectItems(allItems_) == allItems_ # allItems /\ Project(bufferMeta, resizeMeasurement, allItems_)

NextRender ==
  \/ \E meta \in Metas : ProjectMeta(meta)
  \/ \E m \in Measurements : ProjectMeasurement(m)
  \/ \E n \in 0..MaxLength : \E allItems_ \in Collections(n) : ProjectItems(allItems_)

SpecRender == InitRender /\ [][NextRender]_vars

\* ---------------------------------------------------- accumulateBuffer alone
\* the same three sources, with the objects the recycler returns recorded:
\* recycled[j] names the object at position j of the new buffer, a slot
\* object of the previous buffer or one of the new projection. The windows
\* lie inside the longest collection, in a grid of one or two columns.
RecycleMetas == {meta \in Metas : meta.bufferedOffset + meta.bufferedLength <= MaxLength}

RecycleMeasurements == {m \in Measurements : m.columns <= 2 /\ m.itemHeightWithGap = 1}

InitRecycle ==
  /\ InitRender
  /\ bufferMeta \in RecycleMetas
  /\ resizeMeasurement \in RecycleMeasurements

Recycle(meta, m, allItems_) ==
  /\ Projection(meta, m, allItems_)
  /\ bufferPrior' = buffer
  /\ recycled' = Identities(accumulateBufferObjects(
                                Objects("buffer", buffer),
                                Objects("visibleItems", getVisibleItems(meta, m, allItems_))))

\* bufferMeta$ emits
RecycleMeta(meta) == meta # bufferMeta /\ Recycle(meta, resizeMeasurement, allItems)
\* resizeMeasurement$ emits
RecycleMeasurement(m) == m # resizeMeasurement /\ Recycle(bufferMeta, m, allItems)
\* allItems$ emits
RecycleItems(allItems_) == allItems_ # allItems /\ Recycle(bufferMeta, resizeMeasurement, allItems_)

NextRecycle ==
  \/ \E meta \in RecycleMetas : RecycleMeta(meta)
  \/ \E m \in RecycleMeasurements : RecycleMeasurement(m)
  \/ \E n \in 0..MaxLength : \E allItems_ \in Collections(n) : RecycleItems(allItems_)

SpecRecycle == InitRecycle /\ [][NextRecycle]_vars

\* ------------------------------ getObservableOfVisiblePageNumbers alone
\* visiblePageNumbers$ fed by a bufferMeta$ that emits any window, with a
\* debounceTime that holds what visiblePageNumbers$ emitted last
InitPages == Init /\ pageProviderDebounceTime = 1

\* bufferMeta$ emits meta
WindowChange(meta) ==
  /\ meta # bufferMeta
  /\ bufferMeta' = meta
  /\ SetFetchState(VisiblePageNumbers(FetchState, pageProviderDebounceTime,
                     getObservableOfVisiblePageNumbers(meta, length, pageSize),
                     pageSize, pageProvider, epoch))
  /\ UNCHANGED <<inputs, observed, heightAboveWindow, resizeMeasurement, pageSizeSubs,
                 epoch, items, rendering, apart, scrolling>>

NextPages ==
  \/ \E meta \in Metas : WindowChange(meta)
  \/ \E n \in 0..MaxLength : LengthChange(n)

SpecPages == InitPages /\ [][NextPages]_vars

\* ------------------------------------------------------ getBufferMeta alone
\* bufferMeta$ of an empty grid (length 0: no page to fetch) in a window of any
\* height, scrolled and measured to any height above the window, row gap, row
\* height and number of columns
GridMeasurements ==
  [rowGap : 0..MaxRowGap, columns : 1..MaxGridColumns,
   itemHeightWithGap : 0..MaxRowHeight, itemWidthWithGap : {1}]

InitMeta ==
  /\ pipelineAtRest
  /\ innerHeight \in 0..MaxInnerHeight
  /\ length = 0
  /\ pageSize = 1
  /\ resizeMeasurement = NoMeasurement
  /\ bufferMeta = NoMeta
  /\ allItems = <<>>
  /\ visibleItems = <<>>
  /\ buffer = <<>>
  /\ bufferPrior = <<>>
  /\ recycled = <<>>
  /\ foldStart = <<>>
  /\ foldPrior = <<>>
  /\ folded = <<>>

NextMeta ==
  \/ \E h \in 0..MaxAbove : Scroll(h)
  \/ \E h \in 0..MaxAbove, m \in GridMeasurements : RootResize(h, m)
  \/ \E m \in GridMeasurements : ItemRect(m)

SpecMeta == InitMeta /\ [][NextMeta]_vars

\* ----------------------------------------------------------------- properties
\* the page numbers of the current window
VisiblePages ==
  LET pages == RangePages(getObservableOfVisiblePageNumbers(bufferMeta, length, pageSize))
  IN {pages[i] : i \in 1..Len(pages)}

SameRequest(c, d) ==
  /\ c.pageNumber = d.pageNumber
  /\ c.pageSize = d.pageSize
  /\ c.pageProvider = d.pageProvider
  /\ c.epoch = d.epoch

\* C1: within one epoch pageNumber$ never emits the same page number twice,
\* the numbers emitted at the moment the epoch starts included. Every value of
\* pageNumber$ makes one call of cause "pageNumber", so no two such calls of
\* one epoch carry the same page number.
C1_PageNumberOncePerEpoch ==
  \A c \in BagToSet(calls) :
    c.cause = "pageNumber" =>
      /\ CopiesIn(c, calls) = 1
      /\ \A d \in BagToSet(calls) :
           (d.cause = "pageNumber" /\ d.pageNumber = c.pageNumber /\ d.epoch = c.epoch)
             => d = c

\* C2: callPageProvider is never called twice with the same (pageNumber,
\* pageSize, pageProvider) in one epoch, the calls made because pageSize$ or
\* pageProvider$ emitted included.
C2_ProviderCalledOncePerPage ==
  \A c \in BagToSet(calls) :
    /\ CopiesIn(c, calls) = 1
    /\ \A d \in BagToSet(calls) : SameRequest(c, d) => d = c

\* C3: no required work is dropped. When debounceTime holds nothing, no further
\* call can follow unless an input changes, so by then every page number of the
\* current window has been passed to the current provider with the current
\* pageSize in the current epoch.
C3_WindowRequested ==
  (pending = NoRange /\ bufferMeta # NoMeta) =>
    \A p \in VisiblePages :
      \E c \in BagToSet(calls) :
        /\ c.pageNumber = p
        /\ c.pageSize = pageSize
        /\ c.pageProvider = pageProvider
        /\ c.epoch = epoch

\* C5: every known value at index i of the ItemCollection is the item the
\* provider holds for logical index i.
C5_PagesLandCorrectly ==
  \A i \in 1..Len(allItems) :
    allItems[i] # Undefined => allItems[i].idx = i - 1

\* C6: after pageProvider$ emitted a new provider, no value fetched from the
\* provider of before is in the ItemCollection.
C6_CollectionOfCurrentProvider ==
  \A i \in 1..Len(allItems) :
    allItems[i] # Undefined => allItems[i].prov = pageProvider

\* the pages of folded taken in the order order[1], order[2], ...
RECURSIVE FoldIn(_, _, _)
FoldIn(collection, order, k) ==
  IF k > Len(folded) THEN collection
  ELSE FoldIn(accumulateAllItems(collection, folded[order[k]], length, pageSize),
              order, k + 1)

Orders == {o \in [1..Len(folded) -> 1..Len(folded)] :
             \A i, j \in 1..Len(folded) : o[i] = o[j] => i = j}

\* C4: for a fixed length and pageSize, folding pages of pairwise distinct page
\* numbers from the same starting collection gives the same ItemCollection in
\* every completion order.
C4_OrderIndependent ==
  \A o \in Orders : FoldIn(foldStart, o, 1) = allItems

\* two pages completed out of sequence, both inside the collection
C4_Witness ==
  /\ Len(folded) >= 2
  /\ folded[1].pageNumber > folded[2].pageNumber
  /\ folded[1].pageNumber * pageSize < length
  /\ Len(folded[1].items) > 0
  /\ Len(folded[2].items) > 0

\* C7: every collection the accumulator produces has exactly the length of
\* that fold step, whatever the prior length, the page number and the number
\* of items of the page.
C7_LengthIsTotalLength ==
  folded # <<>> => Len(allItems) = length

\* a page straddling the end folded into a collection longer than length
C7_Witness ==
  /\ folded # <<>>
  /\ Len(foldPrior) > length
  /\ folded[Len(folded)].pageNumber * pageSize < length
  /\ (folded[Len(folded)].pageNumber + 1) * pageSize > length

\* C8: a fold step with page k leaves every index below length outside
\* [k * pageSize, (k + 1) * pageSize) with the value it had, a hole where the
\* prior collection was shorter.
C8_OtherSlicesUntouched ==
  folded # <<>> =>
    LET k == folded[Len(folded)].pageNumber
    IN \A i \in 0..(length - 1) :
         (i < k * pageSize \/ i >= (k + 1) * pageSize) =>
           /\ i < Len(allItems)
           /\ allItems[i + 1] = IF i < Len(foldPrior) THEN foldPrior[i + 1] ELSE Undefined

\* a page beyond the end of the prior collection, written into the padding
C8_Witness ==
  /\ folded # <<>>
  /\ folded[Len(folded)].pageNumber * pageSize > Len(foldPrior)
  /\ folded[Len(folded)].pageNumber * pageSize < length
  /\ Len(foldPrior) > 0
  /\ allItems[Len(allItems)] # Undefined

\* the slot getVisibleItems is to make for index
RenderSlot(index) ==
  [index |-> index,
   value |-> IF index < Len(allItems) THEN allItems[index + 1] ELSE Undefined,
   x |-> (index % resizeMeasurement.columns) * resizeMeasurement.itemWidthWithGap,
   y |-> Floor(index, resizeMeasurement.columns) * resizeMeasurement.itemHeightWithGap]

\* C9: getVisibleItems returns one RenderSlot for every index of
\* [bufferedOffset, bufferedOffset + bufferedLength), in index order, an index
\* beyond the ItemCollection giving a slot of undefined value at its position.
C9_SlotForEveryIndexOfWindow ==
  allItems # <<>> =>
    /\ Len(visibleItems) = bufferMeta.bufferedLength
    /\ \A k \in 1..Len(visibleItems) :
         visibleItems[k] = RenderSlot(bufferMeta.bufferedOffset + k - 1)

\* C9 as the code has it: one RenderSlot for every index of the window that is
\* inside the ItemCollection, in index order, a hole of the collection giving a
\* slot of undefined value at its position; no slot for an index beyond the
\* collection.
C9_SlotForEveryIndexInsideCollection ==
  allItems # <<>> =>
    /\ Len(visibleItems) =
         Max(Min(bufferMeta.bufferedOffset + bufferMeta.bufferedLength, Len(allItems))
               - bufferMeta.bufferedOffset, 0)
    /\ \A k \in 1..Len(visibleItems) :
         visibleItems[k] = RenderSlot(bufferMeta.bufferedOffset + k - 1)

\* a window reaching beyond a collection that has a hole inside the window
C9_Witness ==
  /\ bufferMeta.bufferedOffset > 0
  /\ bufferMeta.bufferedOffset + bufferMeta.bufferedLength > Len(allItems)
  /\ Len(visibleItems) >= 2
  /\ \E k \in 1..Len(visibleItems) : visibleItems[k].value = Undefined
  /\ \E k \in 1..Len(visibleItems) : visibleItems[k].x > 0
  /\ \E k \in 1..Len(visibleItems) : visibleItems[k].y > 0

\* C10: after every recycler step the RenderBuffer has the length of the newest
\* projection and holds exactly its slots, each once.
C10_BufferIsNewestProjection ==
  /\ Len(buffer) = Len(visibleItems)
  /\ \A k \in 1..Len(visibleItems) :
       Cardinality({i \in 1..Len(buffer) : buffer[i] = visibleItems[k]}) = 1
  /\ \A i \in 1..Len(buffer) : Contains(visibleItems, buffer[i])

\* slots were replaced in place: the buffer is no longer in index order
C10_Witness ==
  /\ Len(buffer) >= 2
  /\ \E i, j \in 1..Len(buffer) : i < j /\ buffer[i].index > buffer[j].index

\* the slot of the object an identity of recycled names
SlotOf(id) == IF id.from = "buffer" THEN bufferPrior[id.at] ELSE visibleItems[id.at]

\* C11: the recycler keeps the object of every slot of the previous buffer
\* that equals a slot of the new projection; when the projection holds exactly
\* the slots of the previous buffer, the output is the previous buffer object
\* for object, nothing replaced.
C11_SlotIdentityPreserved ==
  /\ Len(recycled) = Len(buffer)
  /\ \A j \in 1..Len(recycled) : buffer[j] = SlotOf(recycled[j])
  /\ \A i \in 1..Len(bufferPrior) :
       Contains(visibleItems, bufferPrior[i]) =>
         \E j \in 1..Len(recycled) : recycled[j] = [from |-> "buffer", at |-> i]
  /\ ( /\ \A i \in 1..Len(bufferPrior) : Contains(visibleItems, bufferPrior[i])
       /\ \A k \in 1..Len(visibleItems) : Contains(bufferPrior, visibleItems[k]) )
       => \A j \in 1..Len(recycled) : recycled[j] = [from |-> "buffer", at |-> j]

\* a window that moved over a collection: some objects kept, some replaced
C11_Witness ==
  /\ Len(bufferPrior) >= 2
  /\ \E j \in 1..Len(recycled) : recycled[j].from = "buffer"
  /\ \E j \in 1..Len(recycled) : recycled[j].from = "visibleItems"

\* the positions of the previous buffer whose slot is in no slot of the
\* projection, and the positions of the projection new to the buffer
FreedPositions == {i \in 1..Len(bufferPrior) : ~Contains(visibleItems, bufferPrior[i])}
AddedPositions == {k \in 1..Len(visibleItems) : ~Contains(bufferPrior, visibleItems[k])}
Appended == Max(Cardinality(AddedPositions) - Cardinality(FreedPositions), 0)

\* C16: in the output of the recycler every replacement is at a position where
\* the previous buffer held a freed slot, and the added slots left over follow
\* all other slots, in projection order.
C16_ReplacedInPlaceAppendedLast ==
  LET body == Len(recycled) - Appended
  IN /\ body >= 0
     /\ \A j \in 1..body :
          recycled[j].from = "visibleItems" => j \in FreedPositions
     /\ \A j \in (body + 1)..Len(recycled) :
          /\ recycled[j].from = "visibleItems"
          /\ recycled[j].at \in AddedPositions
     /\ \A i, j \in (body + 1)..Len(recycled) :
          i < j => recycled[i].at < recycled[j].at

\* a step that replaced a freed slot, dropped another and kept a third behind them
C16_Witness ==
  /\ Len(visibleItems) < Len(bufferPrior)
  /\ \E j \in 1..Len(recycled) : recycled[j].from = "visibleItems"
  /\ \E i \in FreedPositions : \E k \in 1..Len(bufferPrior) :
       k > i /\ k \notin FreedPositions

\* the page a call resolves with
PageOf(call) ==
  [pageNumber |-> call.pageNumber,
   items |-> PageItems(call.pageProvider, call.pageNumber, call.pageSize)]

\* a step in which the promise of call resolves
Resolves(call) == ~call.settled /\ calls' = Settle(call) /\ failed' = failed

\* C12: a rejected call for one page leaves the fold alive for the others.
\* Whenever the promise of a call resolves, before or after another call was
\* rejected, its page is accumulated into the ItemCollection and the render
\* buffer is emitted for it.
C12_OtherPagesStillAccumulated ==
  [][\A call \in BagToSet(calls) :
       Resolves(call) =>
         /\ lastItemsByPage' = PageOf(call)
         /\ allItems' = accumulateAllItems(allItems, PageOf(call), length, pageSize)
         /\ [vis |-> visibleItems', buf |-> buffer'] =
              Render(RenderState, bufferMeta, resizeMeasurement, TRUE, allItems')]_vars

\* the n-th smallest number of a set of numbers
Nth(set, n) == CHOOSE k \in set : Cardinality({j \in set : j < k}) = n - 1

\* the requests made before the grid was measured, all but the last of which a
\* later request unsubscribed while they waited
Unmeasured == {k \in 1..Len(scrollRequests) : ~scrollRequests[k].measured}
Superseded == {k \in Unmeasured : \E j \in Unmeasured : j > k}

\* the scrollTop of the claim for an emitted action
RowOffset(action) ==
  Floor(action.scrollTo, action.columns) * action.itemHeightWithGap
    + topToGridContainer + gridPaddingTop + gridBoarderTop

\* C13: one scroll action per request that is not nil, none for nil. Once the
\* grid is measured every request so far has emitted its action, in order, with
\* scrollTop floor(index / columns) * itemHeightWithGap plus the container
\* offsets, a request overtaken by another before the measurement included.
C13_OneActionPerRequest ==
  resizeMeasurement # NoMeasurement =>
    /\ Len(scrollActions) = Len(scrollRequests)
    /\ \A k \in 1..Len(scrollActions) :
         /\ scrollActions[k].scrollTo = scrollRequests[k].scrollTo
         /\ scrollActions[k].scrollTop = RowOffset(scrollActions[k])

\* C13 as the code has it: a request waits while the grid is not measured and
\* is given up when another request arrives meanwhile; every other request that
\* is not nil emits one action, in order, the waiting one as soon as the grid
\* is measured; nil emits nothing and leaves a waiting request waiting.
C13_OneActionPerRequestNotSuperseded ==
  LET live == (1..Len(scrollRequests)) \ Superseded
      waiting == IF resizeMeasurement = NoMeasurement THEN Unmeasured \ Superseded ELSE {}
      emitted == live \ waiting
  IN /\ Len(scrollActions) = Cardinality(emitted)
     /\ \A n \in 1..Len(scrollActions) :
          /\ scrollActions[n].scrollTo = scrollRequests[Nth(emitted, n)].scrollTo
          /\ scrollActions[n].scrollTop = RowOffset(scrollActions[n])
     /\ scrollPending # NoNumber <=> waiting # {}
     /\ \A k \in waiting : scrollPending = scrollRequests[k].scrollTo

\* two requests before the measurement, the second of a row below the first,
\* then nil, then the measurement
C13_Witness ==
  /\ resizeMeasurement # NoMeasurement
  /\ Superseded # {}
  /\ Len(scrollActions) = 1
  /\ scrollActions[1].scrollTop > 0
  /\ scrollTo = Nil

\* the page numbers debounceTime holds, as mergeAll is to emit them
PendingPages == RangePages(pending)

\* the pages of [floor(bufferedOffset / pageSize),
\* ceil(min(bufferedOffset + bufferedLength, length) / pageSize)), in order
PagesOfWindow ==
  LET from == Floor(bufferMeta.bufferedOffset, pageSize)
      to == Ceil(Min(bufferMeta.bufferedOffset + bufferMeta.bufferedLength, length), pageSize)
  IN /\ Len(PendingPages) = Max(to - from, 0)
     /\ \A k \in 1..Len(PendingPages) : PendingPages[k] = from + k - 1

\* every index of the window below length lies in an emitted page
WindowInPages ==
  \A i \in bufferMeta.bufferedOffset..
             (Min(bufferMeta.bufferedOffset + bufferMeta.bufferedLength, length) - 1) :
    \E k \in 1..Len(PendingPages) : PendingPages[k] = Floor(i, pageSize)

\* C14: getObservableOfVisiblePageNumbers emits the integers of the page
\* interval of the window in increasing order, each once, covering every index
\* of the window below length, and nothing for a window that starts at or
\* beyond length.
C14_PagesOfWindowNoneBeyondLength ==
  pending # NoRange =>
    /\ PagesOfWindow
    /\ WindowInPages
    /\ bufferMeta.bufferedOffset >= length => PendingPages = <<>>

\* C14 as the code has it: the integers of the page interval in increasing
\* order, each once, covering every index of the window below length, and
\* nothing when the interval is empty, which a window is sure of only from the
\* end of the last page on.
C14_PagesOfWindow ==
  pending # NoRange =>
    /\ PagesOfWindow
    /\ WindowInPages
    /\ bufferMeta.bufferedOffset >= Ceil(length, pageSize) * pageSize => PendingPages = <<>>

\* a window starting inside page 0 and reaching beyond length, two pages emitted
C14_Witness ==
  /\ pending # NoRange
  /\ pageSize > 1
  /\ bufferMeta.bufferedOffset > 0
  /\ bufferMeta.bufferedOffset + bufferMeta.bufferedLength > length
  /\ Len(PendingPages) >= 2

\* the rows and items in view and above the view, as the claims count them
RowsInView ==
  IF resizeMeasurement.itemHeightWithGap = 0 THEN 0
  ELSE Ceil(innerHeight + resizeMeasurement.rowGap, resizeMeasurement.itemHeightWithGap) + 1
RowsBeforeView ==
  IF resizeMeasurement.itemHeightWithGap = 0 THEN 0
  ELSE Floor(heightAboveWindow + resizeMeasurement.rowGap, resizeMeasurement.itemHeightWithGap)
WindowLength == RowsInView * resizeMeasurement.columns
RawOffset == RowsBeforeView * resizeMeasurement.columns

\* C15: getBufferMeta returns bufferedOffset >= 0 and bufferedLength =
\* 2 * rowsInView * columns, rowsInView = ceil((viewportHeight + rowGap) /
\* itemHeightWithGap) + 1, for a positive itemHeightWithGap, and 0 for both
\* when itemHeightWithGap is 0.
C15_OffsetNotNegativeLengthTwiceInView ==
  bufferMeta # NoMeta =>
    IF resizeMeasurement.itemHeightWithGap > 0
    THEN /\ bufferMeta.bufferedOffset >= 0
         /\ bufferMeta.bufferedLength =
              2 * (Ceil(innerHeight + resizeMeasurement.rowGap,
                        resizeMeasurement.itemHeightWithGap) + 1)
                * resizeMeasurement.columns
    ELSE bufferMeta.bufferedOffset = 0 /\ bufferMeta.bufferedLength = 0

\* the top of the grid in view: half a window would reach above index 0
C15_Witness ==
  /\ bufferMeta # NoMeta
  /\ resizeMeasurement.itemHeightWithGap > 1
  /\ resizeMeasurement.rowGap > 0
  /\ innerHeight > resizeMeasurement.itemHeightWithGap
  /\ RawOffset > 0
  /\ RawOffset < WindowLength \div 2
  /\ bufferMeta.bufferedOffset = 0

\* C17: the bufferedOffset getBufferMeta returns is a multiple of columns, and
\* bufferedLength is at least twice the rows in view times columns.
C17_OffsetRowAligned ==
  bufferMeta # NoMeta =>
    /\ bufferMeta.bufferedOffset % resizeMeasurement.columns = 0
    /\ bufferMeta.bufferedLength >= 2 * RowsInView * resizeMeasurement.columns

\* C17 as the code has it: bufferedOffset is the offset of the first row in
\* view less half of the items in view, rounded down, or 0; it is a multiple
\* of columns exactly when it is 0, the number of rows in view is even or
\* there is one column. bufferedLength is at least twice the rows in view
\* times columns.
C17_OffsetRowAlignedForEvenRows ==
  bufferMeta # NoMeta =>
    /\ bufferMeta.bufferedOffset = Max(RawOffset - (WindowLength \div 2), 0)
    /\ bufferMeta.bufferedOffset % resizeMeasurement.columns = 0
         <=> \/ bufferMeta.bufferedOffset = 0
             \/ RowsInView % 2 = 0
             \/ resizeMeasurement.columns = 1
    /\ bufferMeta.bufferedLength >= 2 * RowsInView * resizeMeasurement.columns

\* three rows of three columns in view: the window starts in the middle of a row
C17_Witness ==
  /\ bufferMeta # NoMeta
  /\ RowsInView = 3
  /\ resizeMeasurement.columns = 3
  /\ bufferMeta.bufferedOffset % 3 = 2

\* the rows that have pixels in the viewport
RowsOnScreen ==
  {r \in 0..(heightAboveWindow + innerHeight) :
     /\ r * resizeMeasurement.itemHeightWithGap < heightAboveWindow + innerHeight
     /\ (r + 1) * resizeMeasurement.itemHeightWithGap - resizeMeasurement.rowGap
          > heightAboveWindow}

\* C18: for a positive itemHeightWithGap the resident window covers the
\* viewport: bufferedOffset <= rawOffset and bufferedOffset + bufferedLength >=
\* rawOffset + windowLength, and every index of a row on screen is inside
\* [bufferedOffset, bufferedOffset + bufferedLength).
C18_WindowCoversViewport ==
  (bufferMeta # NoMeta /\ resizeMeasurement.itemHeightWithGap > 0) =>
    /\ bufferMeta.bufferedOffset <= RawOffset
    /\ bufferMeta.bufferedOffset + bufferMeta.bufferedLength >= RawOffset + WindowLength
    /\ \A r \in RowsOnScreen : \A c \in 0..(resizeMeasurement.columns - 1) :
         /\ bufferMeta.bufferedOffset <= r * resizeMeasurement.columns + c
         /\ r * resizeMeasurement.columns + c
              < bufferMeta.bufferedOffset + bufferMeta.bufferedLength

\* two rows on screen below the top of the grid, and the offset clamped to 0
C18_Witness ==
  /\ bufferMeta # NoMeta
  /\ resizeMeasurement.itemHeightWithGap > 0
  /\ Cardinality(RowsOnScreen) >= 2
  /\ 0 \notin RowsOnScreen
  /\ resizeMeasurement.columns > 1
  /\ bufferMeta.bufferedOffset = 0

\* C19: no write of a previous epoch. When the promise of a call made before
\* the latest emission of pageSize$ or pageProvider$ resolves, its page is
\* discarded: the ItemCollection stays as it is.
C19_NoStaleEpochWrite ==
  [][\A call \in BagToSet(calls) :
       (Resolves(call) /\ call.epoch < epoch) => allItems' = allItems]_vars

\* nothing is left to happen unless an input changes: debounceTime holds
\* nothing and every promise has resolved
AtRest == pending = NoRange /\ \A call \in BagToSet(calls) : call.settled

\* C20: no permanent holes in the resident window. Once the pipeline is at
\* rest, every index of [bufferedOffset, min(bufferedOffset + bufferedLength,
\* length)) holds a known value in the ItemCollection and in the render buffer.
C20_NoPermanentHoles ==
  (AtRest /\ bufferMeta # NoMeta) =>
    \A i \in bufferMeta.bufferedOffset..
               (Min(bufferMeta.bufferedOffset + bufferMeta.bufferedLength, length) - 1) :
      /\ i < Len(allItems)
      /\ allItems[i + 1] # Undefined
      /\ \E k \in 1..Len(buffer) : buffer[k].index = i /\ buffer[k].value # Undefined

====
